---------------------------- MODULE Spec2Model ----------------------------
(***************************************************************************)
(* A model of chessXAI: the strategic plan DAG (plan_dag.py), the move     *)
(* validation and application done by one controller turn (LLM.evolve and  *)
(* Goal.achieve in models.py) and the game loop that drives them           *)
(* (main.py).                                                              *)
(*                                                                         *)
(* Text is modelled as a sequence of atoms.  A move identifier is spelled  *)
(* character by character ("e2e4" is <<"e","2","e","4">>), a literal piece *)
(* of a message is one atom, and concatenation is \o.  The empty string    *)
(* and None are both <<>>: the code only ever tests them for truthiness.   *)
(*                                                                         *)
(* Nine specifications are given:                                          *)
(*   SpecDag  the PlanDAG driven through its public operations with        *)
(*            arbitrary arguments;                                         *)
(*   Spec     the game loop of main.py with a rules engine that keeps its  *)
(*            contract (the position changes only by a push, pushing a     *)
(*            legal move succeeds);                                        *)
(*   SpecGame the same game loop played for more iterations, with a        *)
(*            generator that proposes one legal and one illegal move;      *)
(*   SpecEnv  Spec plus the faults the code defends against: the position  *)
(*            is mutated from outside while the generator is being         *)
(*            invoked (models.py:277), and the push raises (models.py:175);*)
(*   SpecEngine  SpecEnv with a push that may also raise after it has      *)
(*            begun to change the board;                                   *)
(*   SpecPath a PlanDAG grown by create_plan alone to deeper trees, for    *)
(*            the paths PlanNode.get_path returns;                         *)
(*   SpecOps  SpecDag without the import: one PlanDAG from its             *)
(*            construction on, changed by its four mutating operations;    *)
(*   SpecLive the game loop without a limit on its iterations, run under   *)
(*            weak fairness, in games that are over after MaxMoves moves;  *)
(*   SpecShare  a PlanDAG and the PlanDAG loaded from its export, both     *)
(*            used afterwards.                                             *)
(***************************************************************************)
EXTENDS Integers, Sequences, FiniteSets, TLC

(***************************************************************************)
(* Bounds of the model.                                                    *)
(***************************************************************************)
\* the largest number of nodes a PlanDAG is grown to
MaxPlans == 2
\* the largest number of iterations of the game loop
MaxTurns == 1
\* the largest number of faults injected into one game (SpecEnv)
MaxFaults == 1
\* the largest number of iterations of the game loop in SpecGame
MaxGameTurns == 3
\* the largest number of times a PlanDAG is loaded from an export (SpecDag)
MaxImports == 1
\* the largest number of nodes of a plan tree grown for its paths (SpecPath)
MaxTreePlans == 4
\* the number up to which the iterations of the game loop are counted in
\* SpecLive: from there on move_number stays as it is
MaxLiveTurns == 3
\* the number of pushed moves after which every game is over (SpecLive)
MaxMoves == 2
\* the largest number of calls made on the two DAGs after an import (SpecShare)
MaxSharedCalls == 2

(***************************************************************************)
(* Text helpers.                                                           *)
(***************************************************************************)
None == <<>>

Range(s) == {s[i] : i \in DOMAIN s}

\* Python truthiness of a string or None
Truthy(s) == s # <<>>

\* `x in list`
InList(x, list) == \E i \in DOMAIN list : list[i] = x

\* `sub in text` for two strings
Contains(text, sub) ==
    \E i \in 0..(Len(text) - Len(sub)) :
        \A j \in 1..Len(sub) : text[i + j] = sub[j]

IsSpace(c) == c = " "

RECURSIVE LStrip(_)
LStrip(s) == IF s # <<>> /\ IsSpace(Head(s)) THEN LStrip(Tail(s)) ELSE s

RECURSIVE RStrip(_)
RStrip(s) ==
    IF s # <<>> /\ IsSpace(s[Len(s)]) THEN RStrip(SubSeq(s, 1, Len(s) - 1)) ELSE s

\* str.strip()
Strip(s) == RStrip(LStrip(s))

(***************************************************************************)
(* plan_dag.py                                                             *)
(***************************************************************************)
\* the values of the PlanType enumeration, in definition order
PlanType ==
    << "Control Center", "Develop Kingside", "Develop Queenside",
       "Central Break", "Kingside Pressure", "Queenside Pressure",
       "Defensive Solidification", "Tactical Exploitation", "Material Gain",
       "Positional Improvement", "Counter Attack", "Endgame Transition" >>

\* f"plan_{n}"
PlanId(n) == <<"plan_", n>>

\* dict[key] = value: an existing key keeps its place in the iteration order
DictSet(d, key, value) == [k \in (DOMAIN d) \cup {key} |-> IF k = key THEN value ELSE d[k]]

KeysSet(keys, key) == IF InList(key, keys) THEN keys ELSE Append(keys, key)

\* PlanDAG.__init__
NewPlanDAG ==
    [ nodes        |-> << >>,      \* plan id -> PlanNode
      keys         |-> << >>,      \* the iteration order of nodes
      root_nodes   |-> << >>,
      move_to_plan |-> << >>,      \* move identifier -> plan id
      next_id      |-> 1 ]

\* PlanNode(...) as create_plan builds it
PlanNode(plan_id, plan_type, description, parent_id, move_number) ==
    [ plan_id         |-> plan_id,
      plan_type       |-> plan_type,
      description     |-> description,
      parent_id       |-> parent_id,
      children_ids    |-> << >>,
      moves           |-> << >>,
      status          |-> "active",
      created_at_move |-> move_number ]

\* PlanDAG.create_plan: the DAG after the call; the id returned is
\* PlanId(dag.next_id)
create_plan(dag, plan_type, description, parent_id, move_number) ==
    LET plan_id == PlanId(dag.next_id)
        node    == PlanNode(plan_id, plan_type, description, parent_id, move_number)
        nodes1  == DictSet(dag.nodes, plan_id, node)
        keys1   == KeysSet(dag.keys, plan_id)
    IN  IF Truthy(parent_id)
        THEN IF parent_id \in DOMAIN nodes1
             THEN [dag EXCEPT !.nodes = [nodes1 EXCEPT ![parent_id].children_ids =
                                            Append(@, plan_id)],
                              !.keys = keys1,
                              !.next_id = @ + 1]
             ELSE [dag EXCEPT !.nodes = nodes1, !.keys = keys1, !.next_id = @ + 1]
        ELSE [dag EXCEPT !.nodes = nodes1,
                         !.keys = keys1,
                         !.root_nodes = Append(@, plan_id),
                         !.next_id = @ + 1]

\* faulty variant: the move is appended without looking for it in the list
add_move_to_plan_AlwaysAppends(dag, move_uci, plan_id) ==
    IF plan_id \in DOMAIN dag.nodes
    THEN [dag EXCEPT !.nodes = [@ EXCEPT ![plan_id].moves = Append(@, move_uci)],
                     !.move_to_plan = DictSet(@, move_uci, plan_id)]
    ELSE dag

\* faulty variant: the index entry is written whether the node exists or not
add_move_to_plan_IndexesAnyway(dag, move_uci, plan_id) ==
    IF plan_id \in DOMAIN dag.nodes
    THEN [dag EXCEPT !.nodes = [@ EXCEPT ![plan_id].moves =
                                   IF InList(move_uci, @) THEN @ ELSE Append(@, move_uci)],
                     !.move_to_plan = DictSet(@, move_uci, plan_id)]
    ELSE [dag EXCEPT !.move_to_plan = DictSet(@, move_uci, plan_id)]

\* PlanDAG.add_move_to_plan
add_move_to_plan(dag, move_uci, plan_id) ==
    IF plan_id \in DOMAIN dag.nodes
    THEN [dag EXCEPT !.nodes = [@ EXCEPT ![plan_id].moves =
                                   IF InList(move_uci, @) THEN @ ELSE Append(@, move_uci)],
                     !.move_to_plan = DictSet(@, move_uci, plan_id)]
    ELSE dag

\* PlanDAG.get_plan_for_move, as the id of the node it returns, or None
get_plan_for_move(dag, move_uci) ==
    IF move_uci \in DOMAIN dag.move_to_plan
    THEN LET plan_id == dag.move_to_plan[move_uci]
         IN  IF Truthy(plan_id) /\ plan_id \in DOMAIN dag.nodes THEN plan_id ELSE None
    ELSE None

\* faulty variant: the label of the parent is put behind, not in front
RECURSIVE get_path_parts_Appends(_, _, _)
get_path_parts_Appends(dag, current, path_parts) ==
    IF Truthy(current.parent_id) /\ current.parent_id \in DOMAIN dag.nodes
    THEN LET parent == dag.nodes[current.parent_id]
         IN  get_path_parts_Appends(dag, parent, path_parts \o <<parent.plan_type>>)
    ELSE path_parts

\* PlanNode.get_path, as the list path_parts before the join.  The loop of
\* the source has no bound: on a cyclic parent chain it does not return.
RECURSIVE get_path_parts(_, _, _)
get_path_parts(dag, current, path_parts) ==
    IF Truthy(current.parent_id) /\ current.parent_id \in DOMAIN dag.nodes
    THEN LET parent == dag.nodes[current.parent_id]
         IN  get_path_parts(dag, parent, <<parent.plan_type>> \o path_parts)
    ELSE path_parts

\* " -> ".join(path_parts), the arrow being one atom
RECURSIVE JoinArrow(_)
JoinArrow(parts) ==
    IF parts = <<>> THEN <<>>
    ELSE IF Len(parts) = 1 THEN <<parts[1]>>
    ELSE <<parts[1], " -> ">> \o JoinArrow(Tail(parts))

get_path(dag, node) == JoinArrow(get_path_parts(dag, node, <<node.plan_type>>))

\* faulty variant: the path ends in the whole move text
get_plan_path_for_move_WholeMove(dag, move_uci) ==
    LET plan_id == get_plan_for_move(dag, move_uci)
    IN  IF plan_id # None
        THEN get_path(dag, dag.nodes[plan_id])
                 \o <<" -> ">> \o move_uci \o <<" execution">>
        ELSE None

\* PlanDAG.get_plan_path_for_move: the path text, or None
get_plan_path_for_move(dag, move_uci) ==
    LET plan_id == get_plan_for_move(dag, move_uci)
    IN  IF plan_id # None
        THEN LET move_desc == IF Len(move_uci) >= 4
                              THEN SubSeq(move_uci, Len(move_uci) - 1, Len(move_uci))
                              ELSE move_uci
             IN  get_path(dag, dag.nodes[plan_id])
                     \o <<" -> ">> \o move_desc \o <<" execution">>
        ELSE None

\* PlanDAG.get_active_plans: the active nodes in iteration order
RECURSIVE ActiveOf(_, _)
ActiveOf(dag, keys) ==
    IF keys = <<>> THEN <<>>
    ELSE IF dag.nodes[Head(keys)].status = "active"
         THEN <<dag.nodes[Head(keys)]>> \o ActiveOf(dag, Tail(keys))
         ELSE ActiveOf(dag, Tail(keys))

get_active_plans(dag) == ActiveOf(dag, dag.keys)

\* faulty variant: the new status is passed on to the children of the node
SetStatus_Cascades(dag, plan_id, status) ==
    IF plan_id \in DOMAIN dag.nodes
    THEN [dag EXCEPT !.nodes =
            [q \in DOMAIN dag.nodes |->
                IF q = plan_id \/ InList(q, dag.nodes[plan_id].children_ids)
                THEN [dag.nodes[q] EXCEPT !.status = status]
                ELSE dag.nodes[q]]]
    ELSE dag

SetStatus(dag, plan_id, status) ==
    IF plan_id \in DOMAIN dag.nodes
    THEN [dag EXCEPT !.nodes = [@ EXCEPT ![plan_id].status = status]]
    ELSE dag

\* faulty variant: completing an abandoned plan takes it up again
complete_plan_Reopens(dag, plan_id) ==
    IF plan_id \in DOMAIN dag.nodes /\ dag.nodes[plan_id].status = "abandoned"
    THEN SetStatus(dag, plan_id, "active")
    ELSE SetStatus(dag, plan_id, "completed")

\* PlanDAG.complete_plan
complete_plan(dag, plan_id) == SetStatus(dag, plan_id, "completed")

\* faulty variant: an abandoned plan is taken out of the DAG
abandon_plan_Deletes(dag, plan_id) ==
    [dag EXCEPT !.nodes = [q \in DOMAIN dag.nodes \ {plan_id} |-> dag.nodes[q]],
                !.keys = SelectSeq(dag.keys, LAMBDA k : k # plan_id)]

\* PlanDAG.abandon_plan
abandon_plan(dag, plan_id) == SetStatus(dag, plan_id, "abandoned")

\* The while loop of PlanNode.get_path (lines 40-46) run for k iterations at
\* most: whether it has been left by then, and path_parts as it stands.
RECURSIVE get_path_loop(_, _, _, _)
get_path_loop(dag, current, path_parts, k) ==
    IF Truthy(current.parent_id) /\ current.parent_id \in DOMAIN dag.nodes
    THEN IF k = 0
         THEN [returned |-> FALSE, path_parts |-> path_parts]
         ELSE LET parent == dag.nodes[current.parent_id]
              IN  get_path_loop(dag, parent, <<parent.plan_type>> \o path_parts, k - 1)
    ELSE [returned |-> TRUE, path_parts |-> path_parts]

\* faulty variant: the export leaves the move index out
to_dict_OmitsIndex(dag) ==
    [ nodes        |-> dag.nodes,
      keys         |-> dag.keys,
      root_nodes   |-> dag.root_nodes,
      move_to_plan |-> << >> ]

\* faulty variant: the import does not take the children lists over
from_dict_DropsChildren(dag, data) ==
    [ dag EXCEPT
        !.nodes        = [plan_id \in DOMAIN data.nodes |->
                            [data.nodes[plan_id] EXCEPT !.children_ids = << >>]],
        !.keys         = data.keys,
        !.root_nodes   = data.root_nodes,
        !.move_to_plan = data.move_to_plan ]

\* PlanDAG.to_dict: the node dictionaries in iteration order, the root list
\* and the index.  plan_type is exported as the value of the enumeration.
to_dict(dag) ==
    [ nodes        |-> [plan_id \in DOMAIN dag.nodes |->
                          LET node == dag.nodes[plan_id]
                          IN  [ plan_id         |-> node.plan_id,
                                plan_type       |-> node.plan_type,
                                description     |-> node.description,
                                parent_id       |-> node.parent_id,
                                children_ids    |-> node.children_ids,
                                moves           |-> node.moves,
                                status          |-> node.status,
                                created_at_move |-> node.created_at_move ]],
      keys         |-> dag.keys,
      root_nodes   |-> dag.root_nodes,
      move_to_plan |-> dag.move_to_plan ]

\* PlanDAG.from_dict: the receiving DAG after the call.  nodes, root_nodes
\* and move_to_plan are replaced; _next_id is not assigned and keeps the
\* value the receiver had.
from_dict(dag, data) ==
    [ dag EXCEPT
        !.nodes        = [plan_id \in DOMAIN data.nodes |->
                            LET node_data == data.nodes[plan_id]
                            IN  [ plan_id         |-> node_data.plan_id,
                                  plan_type       |-> node_data.plan_type,
                                  description     |-> node_data.description,
                                  parent_id       |-> node_data.parent_id,
                                  children_ids    |-> node_data.children_ids,
                                  moves           |-> node_data.moves,
                                  status          |-> node_data.status,
                                  created_at_move |-> node_data.created_at_move ]],
        !.keys         = data.keys,
        !.root_nodes   = data.root_nodes,
        !.move_to_plan = data.move_to_plan ]

(***************************************************************************)
(* python-chess, as far as the controller uses it.                         *)
(***************************************************************************)
Files == {"a", "b", "c", "d", "e", "f", "g", "h"}
Ranks == {"1", "2", "3", "4", "5", "6", "7", "8"}
PieceSymbols == {"p", "n", "b", "r", "q", "k"}

\* whether chess.Move.from_uci(s) returns (it raises ValueError otherwise)
UciOk(s) ==
    \/ s = <<"0", "0", "0", "0">>
    \/ /\ Len(s) \in 4..5
       /\ s[1] \in Files /\ s[2] \in Ranks
       /\ s[3] \in Files /\ s[4] \in Ranks
       /\ Len(s) = 5 => s[5] \in PieceSymbols
       /\ SubSeq(s, 1, 2) # SubSeq(s, 3, 4)

\* chess.Move.from_uci(s): a from square, a to square, a promotion piece
from_uci(s) ==
    IF s = <<"0", "0", "0", "0">>
    THEN [from_square |-> <<"a", "1">>, to_square |-> <<"a", "1">>, promotion |-> None]
    ELSE [from_square |-> SubSeq(s, 1, 2),
          to_square   |-> SubSeq(s, 3, 4),
          promotion   |-> IF Len(s) = 5 THEN <<s[5]>> ELSE None]

\* chess.Move.uci()
uci(m) ==
    IF m.from_square = m.to_square /\ m.promotion = None
    THEN <<"0", "0", "0", "0">>
    ELSE m.from_square \o m.to_square \o m.promotion

\* bool(move): a null move is falsy
MoveTruthy(m) == m # None /\ uci(m) # <<"0", "0", "0", "0">>

\* [m.uci() for m in moves]
UciList(moves) == [i \in DOMAIN moves |-> uci(moves[i])]

E2E4  == <<"e", "2", "e", "4">>
G1F3  == <<"g", "1", "f", "3">>
E7E8Q == <<"e", "7", "e", "8", "q">>
Z9Z9  == <<"z", "9", "z", "9">>
NF3   == <<"N", "f", "3">>

\* The positions of the rules engine the model distinguishes: the legal
\* moves in enumeration order, is_game_over() and is_checkmate().  A
\* position without legal moves is over (checkmate or stalemate); one with
\* legal moves may be over too (insufficient material, 75 moves, fivefold
\* repetition).
Positions ==
    { [legal_moves |-> <<from_uci(E2E4), from_uci(G1F3)>>, game_over |-> FALSE, checkmate |-> FALSE],
      [legal_moves |-> <<from_uci(G1F3), from_uci(E2E4)>>, game_over |-> FALSE, checkmate |-> FALSE],
      [legal_moves |-> <<from_uci(E7E8Q)>>,                game_over |-> FALSE, checkmate |-> FALSE],
      [legal_moves |-> <<from_uci(E2E4)>>,                 game_over |-> TRUE,  checkmate |-> FALSE],
      [legal_moves |-> << >>,                              game_over |-> TRUE,  checkmate |-> FALSE],
      [legal_moves |-> << >>,                              game_over |-> TRUE,  checkmate |-> TRUE] }

Colors == {"White", "Black"}

Opponent(color) == IF color = "White" THEN "Black" ELSE "White"

\* a chess.Board showing position pos with color to move
BoardOf(color, pos, move_stack) ==
    [ turn        |-> color,
      legal_moves |-> pos.legal_moves,
      game_over   |-> pos.game_over,
      checkmate   |-> pos.checkmate,
      move_stack  |-> move_stack ]

\* board.push(move), the position reached being next
push(b, move, next) == BoardOf(Opponent(b.turn), next, Append(b.move_stack, move))

\* The board a board.push(move) leaves that raised, before it has changed
\* the board ("before") or midway ("midway").  push appends the move to
\* move_stack first and moves the piece afterwards; an exception from the
\* second part leaves the move on the stack and the side to move as it was.
push_raised(b, move, raises) ==
    IF raises = "midway" THEN [b EXCEPT !.move_stack = Append(@, move)] ELSE b

(***************************************************************************)
(* The state.                                                              *)
(***************************************************************************)
VARIABLES
    plan_dag,     \* main.py: plan_dag, the PlanDAG
    board,        \* main.py: board, the chess.Board
    goal,         \* main.py: goal, the Goal
    recorder,     \* main.py: recorder.moves
    move_number,  \* main.py: move_number
    running,      \* main.py: running
    loop,         \* main.py: the locals of one iteration of the game loop
    ev,           \* models.py: the locals of one call of LLM.evolve
    pc,           \* where the game loop stands
    agent_color,  \* main.py: agent_color, set from AGENT_PLAYS_FIRST
    faults,       \* the number of faults injected so far (SpecEnv)
    imports,      \* the number of times the DAG was loaded from an export (SpecDag)
    origin        \* the PlanDAG an export was taken from and loaded into plan_dag,
                  \* still in use beside it (SpecShare)

vars == <<plan_dag, board, goal, recorder, move_number, running, loop, ev, pc,
          agent_color, faults, imports, origin>>

\* no export has been loaded: there is no second PlanDAG.  Once there is
\* one, shared holds the ids of the nodes whose children_ids and moves are
\* the same list objects in both DAGs; root_nodes and move_to_plan are the
\* same objects in both from the import on; calls counts the calls made on
\* the two DAGs since.
NoOrigin == [live |-> FALSE, dag |-> NewPlanDAG, shared |-> {}, calls |-> 0]

\* Goal.__init__
NewGoal(description) ==
    [ original_description |-> description,
      description          |-> description,
      achieved             |-> FALSE,
      move                 |-> None,
      reason               |-> None,
      move_made            |-> FALSE,
      plan_node            |-> None ]

\* the locals of LLM.evolve before any is assigned
NoFrame ==
    [ expected_color       |-> "",
      all_legal_moves      |-> << >>,
      proposal             |-> None,     \* what chain.invoke returned
      result               |-> None,     \* the same object as the code rewrites it
      legal_moves_uci      |-> << >>,
      attempted_move_str   |-> None,
      move_to_apply        |-> None,
      reason_to_use        |-> None,
      moves_before_achieve |-> 0,
      current_legal_moves  |-> << >>,
      plan_node_path       |-> None,
      returned             |-> "",       \* the statement that returned
      ret                  |-> FALSE ]   \* the value returned

\* the locals of one loop iteration before any is assigned
NoLoop ==
    [ board_before_move |-> None,
      player_name       |-> None,
      move_uci          |-> None,
      reason_str        |-> None ]

Init ==
    /\ plan_dag = NewPlanDAG
    /\ \E pos \in {p \in Positions : ~p.game_over} : board = BoardOf("White", pos, << >>)
    /\ goal = NewGoal(<<"Win the game of chess by making the best moves against Stockfish.">>)
    /\ recorder = << >>
    /\ move_number = 0
    /\ running = TRUE
    /\ loop = NoLoop
    /\ ev = NoFrame
    /\ pc = "loop"
    \* main.py 22, 55-64: AGENT_PLAYS_FIRST is set to either value
    /\ agent_color \in Colors
    /\ faults = 0
    /\ imports = 0
    /\ origin = NoOrigin

(***************************************************************************)
(* SpecDag: the PlanDAG called through its public operations.              *)
(***************************************************************************)
DagPlanTypes == {"Control Center", "Material Gain"}
DagParents   == {None} \cup {PlanId(n) : n \in 1..MaxPlans}
DagMoves     == {E2E4, E7E8Q}

ctl == <<board, goal, recorder, move_number, running, loop, ev, pc, agent_color, faults>>

\* create_plan is called with the number of the loop iteration, as main.py
\* and LLM.evolve call it, and no iteration creates two plans
CreatePlan ==
    /\ plan_dag.next_id <= MaxPlans
    /\ move_number' = move_number + 1
    /\ \E plan_type \in DagPlanTypes, parent_id \in DagParents :
          plan_dag' = create_plan(plan_dag, plan_type, "plan", parent_id, move_number + 1)
    /\ UNCHANGED <<board, goal, recorder, running, loop, ev, pc, agent_color, faults, imports, origin>>

AddMoveToPlan ==
    /\ \E move_uci \in DagMoves, plan_id \in DagParents \ {None} :
          plan_dag' = add_move_to_plan(plan_dag, move_uci, plan_id)
    /\ UNCHANGED <<ctl, imports, origin>>

CompletePlan ==
    /\ \E plan_id \in DagParents \ {None} : plan_dag' = complete_plan(plan_dag, plan_id)
    /\ UNCHANGED <<ctl, imports, origin>>

AbandonPlan ==
    /\ \E plan_id \in DagParents \ {None} : plan_dag' = abandon_plan(plan_dag, plan_id)
    /\ UNCHANGED <<ctl, imports, origin>>

\* The DAG is saved (to_dict) and loaded into a new PlanDAG (from_dict), which
\* takes its place.
ImportDag ==
    /\ imports < MaxImports
    /\ imports' = imports + 1
    /\ plan_dag' = from_dict(NewPlanDAG, to_dict(plan_dag))
    /\ UNCHANGED <<ctl, origin>>

NextDag == CreatePlan \/ AddMoveToPlan \/ CompletePlan \/ AbandonPlan \/ ImportDag

\* the DAG is exercised beside one fixed board
InitDag ==
    /\ Init
    /\ board.legal_moves = <<from_uci(E2E4), from_uci(G1F3)>>
    /\ agent_color = "White"

SpecDag == InitDag /\ [][NextDag]_vars

(***************************************************************************)
(* Claims about the PlanDAG.                                               *)
(***************************************************************************)
NodeIds == DOMAIN plan_dag.nodes

\* the nodes reached from plan_id by following k parent links or fewer
RECURSIVE AncestorsWithin(_, _)
AncestorsWithin(plan_id, k) ==
    IF k = 0 \/ plan_id \notin NodeIds \/ ~Truthy(plan_dag.nodes[plan_id].parent_id)
    THEN {}
    ELSE {plan_dag.nodes[plan_id].parent_id}
            \cup AncestorsWithin(plan_dag.nodes[plan_id].parent_id, k - 1)

\* C1: a move m is indexed under plan p if and only if m is in the move
\* list of node p; hence it is in no other node's list.
C1_IndexAgreesWithMoveLists ==
    \A m \in DagMoves : \A p \in DagParents \ {None} :
        (m \in DOMAIN plan_dag.move_to_plan /\ plan_dag.move_to_plan[m] = p)
            <=> (p \in NodeIds /\ InList(m, plan_dag.nodes[p].moves))

\* C2: the parent/child graph has no cycle, and every id in a node's
\* children list names an existing node whose parent id is that node.
C2_NoCycleAndChildrenConsistent ==
    /\ \A p \in NodeIds : p \notin AncestorsWithin(p, Cardinality(NodeIds))
    /\ \A p \in NodeIds : \A i \in DOMAIN plan_dag.nodes[p].children_ids :
          LET c == plan_dag.nodes[p].children_ids[i]
          IN  c \in NodeIds /\ plan_dag.nodes[c].parent_id = p

\* the plan ids the operations are called with
DagIds == DagParents \ {None}

\* a move is in the move list of node p
Listed(dag, m, p) == p \in DOMAIN dag.nodes /\ InList(m, dag.nodes[p].moves)

\* C11: AddMoveToPlan(m, q) for a move indexed under another existing plan p
\* removes m from p's move list, has m in q's list and the index entry of m
\* at q, and leaves m in the move list of no node but q.
C11_ReassignMovesTheMove ==
    [][\A m \in DagMoves : \A q \in DagIds :
          (/\ m \in DOMAIN plan_dag.move_to_plan
           /\ plan_dag.move_to_plan[m] # q
           /\ plan_dag.move_to_plan[m] \in NodeIds
           /\ q \in NodeIds
           /\ plan_dag' = add_move_to_plan(plan_dag, m, q))
             => /\ ~Listed(plan_dag', m, plan_dag.move_to_plan[m])
                /\ Listed(plan_dag', m, q)
                /\ plan_dag'.move_to_plan[m] = q
                /\ \A r \in DOMAIN plan_dag'.nodes : Listed(plan_dag', m, r) => r = q]_vars

\* C12: calling AddMoveToPlan(m, p) a second time changes nothing, for every
\* DAG, move and plan id (of an existing node or not).
C12_AddMoveTwiceIsAddMoveOnce ==
    \A m \in DagMoves : \A p \in DagIds :
        LET once == add_move_to_plan(plan_dag, m, p)
        IN  add_move_to_plan(once, m, p) = once

\* C12: a node holds two moves, the first of them indexed under it, so that
\* adding the first again must neither append nor reorder
C12_Witness ==
    \E p \in NodeIds :
        /\ Len(plan_dag.nodes[p].moves) = 2
        /\ plan_dag.nodes[p].moves[1] \in DOMAIN plan_dag.move_to_plan
        /\ plan_dag.move_to_plan[plan_dag.nodes[p].moves[1]] = p
        /\ add_move_to_plan(plan_dag, plan_dag.nodes[p].moves[1], p) = plan_dag

\* a step that hands out a plan id
CreateStep == plan_dag'.next_id = plan_dag.next_id + 1

\* C13: the id a CreatePlan call hands out is the id of no node of the DAG,
\* and every node the DAG held is still there unreplaced.
C13_CreatePlanIdIsFresh ==
    [][CreateStep =>
         /\ PlanId(plan_dag.next_id) \notin NodeIds
         /\ \A p \in NodeIds :
               /\ p \in DOMAIN plan_dag'.nodes
               /\ plan_dag'.nodes[p].created_at_move = plan_dag.nodes[p].created_at_move
               /\ plan_dag'.nodes[p].moves = plan_dag.nodes[p].moves]_vars

\* C14: every node is listed as a root or in the children of an existing
\* node; a node created with a parent id that does not resolve is a root.
C14_EveryNodeIsRootOrChild ==
    \A p \in NodeIds :
        \/ InList(p, plan_dag.root_nodes)
        \/ \E q \in NodeIds : InList(p, plan_dag.nodes[q].children_ids)

\* C15: from every node the walk of GetPlanPath is over after as many steps
\* as the DAG has nodes.
C15_PathWalkIsBounded ==
    \A p \in NodeIds :
        get_path_loop(plan_dag, plan_dag.nodes[p], <<plan_dag.nodes[p].plan_type>>,
                      Cardinality(NodeIds)).returned

\* the walk from the node move m is indexed under comes to an end
PathReturns(dag, m) ==
    LET p == get_plan_for_move(dag, m)
    IN  get_path_loop(dag, dag.nodes[p], <<dag.nodes[p].plan_type>>,
                      Cardinality(DOMAIN dag.nodes)).returned

\* the last segment of a path text: what follows the last arrow
LastSegment(path) == SubSeq(path, Len(path) - 2, Len(path))

\* C16: GetPlanPathForMove(m) is absent for a move that is not associated
\* with a plan, and otherwise ends in the destination square of m followed
\* by the execution suffix.
C16_PathEndsInDestinationSquare ==
    \A m \in DagMoves :
        IF get_plan_for_move(plan_dag, m) = None
        THEN get_plan_path_for_move(plan_dag, m) = None
        ELSE PathReturns(plan_dag, m) =>
                LastSegment(get_plan_path_for_move(plan_dag, m))
                    = from_uci(m).to_square \o <<" execution">>

\* the orders in which the nodes of an export may come
Orders(keys) ==
    {s \in [1..Len(keys) -> Range(keys)] : Range(s) = Range(keys)}

\* the DAG loaded into a new PlanDAG from its own export
Reimported == from_dict(NewPlanDAG, to_dict(plan_dag))

\* every listed child exists and names the lister as its parent
ChildrenPointBack(dag) ==
    \A p \in DOMAIN dag.nodes : \A i \in DOMAIN dag.nodes[p].children_ids :
        LET c == dag.nodes[p].children_ids[i]
        IN  c \in DOMAIN dag.nodes /\ dag.nodes[c].parent_id = p

\* C17: export followed by import reproduces every node with all its fields,
\* the root list and the move index, and the children's back-references are
\* as they were, in whatever order the export lists the nodes.
C17_ExportImportReproduces ==
    /\ Reimported.nodes = plan_dag.nodes
    /\ Reimported.keys = plan_dag.keys
    /\ Reimported.root_nodes = plan_dag.root_nodes
    /\ Reimported.move_to_plan = plan_dag.move_to_plan
    /\ ChildrenPointBack(Reimported) <=> ChildrenPointBack(plan_dag)
    /\ \A order \in Orders(plan_dag.keys) :
          LET data == [to_dict(plan_dag) EXCEPT !.keys = order]
          IN  /\ from_dict(NewPlanDAG, data).nodes = plan_dag.nodes
              /\ from_dict(NewPlanDAG, data).move_to_plan = plan_dag.move_to_plan
              /\ from_dict(NewPlanDAG, data).root_nodes = plan_dag.root_nodes

\* C17: a DAG just loaded from an export, holding a parent with a child and
\* an indexed move
C17_Witness ==
    /\ imports = 1 /\ plan_dag.next_id = 1
    /\ \E p \in NodeIds : \E c \in NodeIds \ {p} :
          /\ InList(c, plan_dag.nodes[p].children_ids)
          /\ plan_dag.nodes[c].parent_id = p
    /\ DOMAIN plan_dag.move_to_plan # {}

\* C18: the DAG loaded from the export has the same active plans in the same
\* order, and for every indexed move the same plan path: its walk ends in
\* both or in neither, and where it ends the path texts are equal.
C18_ExportImportObservablyEqual ==
    /\ get_active_plans(Reimported) = get_active_plans(plan_dag)
    /\ \A m \in DOMAIN plan_dag.move_to_plan :
          /\ get_plan_for_move(Reimported, m) = get_plan_for_move(plan_dag, m)
          /\ get_plan_for_move(plan_dag, m) # None =>
                /\ PathReturns(Reimported, m) <=> PathReturns(plan_dag, m)
                /\ PathReturns(plan_dag, m) =>
                      get_plan_path_for_move(Reimported, m)
                          = get_plan_path_for_move(plan_dag, m)

\* C18: a DAG just loaded from an export in which a move is indexed under a
\* sub-plan and one of the plans is no longer active
C18_Witness ==
    /\ imports = 1 /\ plan_dag.next_id = 1
    /\ \E m \in DOMAIN plan_dag.move_to_plan :
          LET p == plan_dag.move_to_plan[m]
          IN  /\ p \in NodeIds
              /\ plan_dag.nodes[p].parent_id \in NodeIds \ {p}
              /\ PathReturns(plan_dag, m)
    /\ \E q \in NodeIds : plan_dag.nodes[q].status # "active"
    /\ Len(get_active_plans(plan_dag)) = 1

(***************************************************************************)
(* models.py: Goal.achieve                                                 *)
(***************************************************************************)
\* faulty variant: the goal counts as achieved when the game is over after
\* the push, by checkmate or not
achieve_AchievedWhenGameOver(g, b, move_str, reason, raises, next) ==
    LET g0             == [g EXCEPT !.reason = reason, !.move = None, !.move_made = FALSE]
        move_str_clean == Strip(move_str)
        parsed         == UciOk(move_str_clean)
        move           == IF parsed THEN from_uci(move_str_clean) ELSE None
        failed(gx)     == [goal  |-> [gx EXCEPT !.achieved = FALSE, !.move_made = FALSE],
                           board |-> b]
    IN  IF b.game_over THEN failed(g0)
        ELSE IF ~InList(move_str_clean, UciList(b.legal_moves)) THEN failed(g0)
        ELSE IF ~parsed THEN failed(g0)
        ELSE IF InList(move, b.legal_moves)
             THEN IF raises # "no"
                  THEN [goal  |-> failed([g0 EXCEPT !.move = move]).goal,
                        board |-> push_raised(b, move, raises)]
                  ELSE LET b1 == push(b, move, next)
                       IN  [goal  |-> [g0 EXCEPT !.move = move,
                                                 !.move_made = TRUE,
                                                 !.achieved = b1.game_over],
                            board |-> b1]
             ELSE failed([g0 EXCEPT !.move = move])

\* the result of Goal.achieve(board, move_str, reason): the Goal and the
\* board after the call.  raises says whether board.push raises ("no") and
\* in which way (lines 166-178 catch the exception and undo nothing), next is
\* the position the push leads to.
achieve(g, b, move_str, reason, raises, next) ==
    LET g0             == [g EXCEPT !.reason = reason, !.move = None, !.move_made = FALSE]
        expected_color == b.turn
        move_str_clean == Strip(move_str)
        legal_moves_uci_precheck == UciList(b.legal_moves)
        \* from_uci, then board.parse_san when it raises.  Only the UCI text
        \* of a legal move gets here, which from_uci accepts; the SAN parser
        \* is taken to refuse what from_uci refuses.
        parsed         == UciOk(move_str_clean)
        move           == IF parsed THEN from_uci(move_str_clean) ELSE None
        legal_moves_list == b.legal_moves
        failed(gx)     == [goal  |-> [gx EXCEPT !.achieved = FALSE, !.move_made = FALSE],
                           board |-> b]
    IN  IF b.game_over THEN failed(g0)
        ELSE IF ~InList(move_str_clean, legal_moves_uci_precheck) THEN failed(g0)
        ELSE IF ~parsed THEN failed(g0)
        ELSE IF b.turn # expected_color THEN failed([g0 EXCEPT !.move = move])
        ELSE IF InList(move, legal_moves_list)
             THEN IF raises # "no"
                  THEN [goal  |-> failed([g0 EXCEPT !.move = move]).goal,
                        board |-> push_raised(b, move, raises)]
                  ELSE LET b1 == push(b, move, next)
                       IN  [goal  |-> [g0 EXCEPT !.move = move,
                                                 !.move_made = TRUE,
                                                 !.achieved = b1.checkmate],
                            board |-> b1]
             ELSE failed([g0 EXCEPT !.move = move])

(***************************************************************************)
(* models.py: LLM.evolve                                                   *)
(***************************************************************************)
\* what the generator may return: an Output with any combination of fields
GenMoves       == { << >>, <<" ">>, E2E4, <<" ">> \o G1F3 \o <<" ">>, Z9Z9, NF3 }
GenReasons     == { << >>, <<"central control">> }
GenNewGoals    == { << >>, <<"Attack the king">> }
GenPlanTypes   == { "", "Control Center", "Fortress" }
GenParentPlans == { "", "positional improvement" }

Output ==
    [ move             : GenMoves,
      reason           : GenReasons,
      new_goal         : GenNewGoals,
      plan_type        : GenPlanTypes,
      plan_description : {"hold the centre"},
      parent_plan      : GenParentPlans ]

\* str.lower() on the plan-type texts that occur
Lower(s) ==
    CASE s = "Control Center"           -> "control center"
      [] s = "Develop Kingside"         -> "develop kingside"
      [] s = "Develop Queenside"        -> "develop queenside"
      [] s = "Central Break"            -> "central break"
      [] s = "Kingside Pressure"        -> "kingside pressure"
      [] s = "Queenside Pressure"       -> "queenside pressure"
      [] s = "Defensive Solidification" -> "defensive solidification"
      [] s = "Tactical Exploitation"    -> "tactical exploitation"
      [] s = "Material Gain"            -> "material gain"
      [] s = "Positional Improvement"   -> "positional improvement"
      [] s = "Counter Attack"           -> "counter attack"
      [] s = "Endgame Transition"       -> "endgame transition"
      [] s = "Fortress"                 -> "fortress"
      [] OTHER                          -> s

(***************************************************************************)
(* Faulty variants of the validation steps.  Each differs from the step    *)
(* defined after it in one plausible way; the properties at the end of the *)
(* module tell them apart from the code.                                   *)
(***************************************************************************)
\* the ownership check compares the board with itself
TurnChanged_ComparesBoardWithItself(b, expected_color) == b.turn # b.turn

\* an illegal proposal ends the turn instead of being replaced
ValidateProposal_RejectsIllegal(result, all_legal_moves, legal_moves_uci) ==
    LET attempted_move_str == IF Truthy(result.move) THEN Strip(result.move) ELSE None
        fallback_move      == uci(all_legal_moves[1])
        original_reason    == IF Truthy(result.reason) THEN result.reason
                              ELSE <<"No reason provided">>
    IN  IF ~Truthy(attempted_move_str)
        THEN IF Len(all_legal_moves) > 0
             THEN [ok |-> TRUE,
                   attempted_move_str |-> fallback_move,
                   result |-> [result EXCEPT !.move = fallback_move,
                                             !.reason = <<"Fallback: No move was generated">>]]
             ELSE [ok |-> FALSE, attempted_move_str |-> attempted_move_str, result |-> result]
        ELSE IF ~InList(attempted_move_str, legal_moves_uci)
        THEN IF Len(all_legal_moves) > 0
             THEN [ok |-> FALSE, attempted_move_str |-> attempted_move_str, result |-> result]
             ELSE [ok |-> FALSE, attempted_move_str |-> attempted_move_str, result |-> result]
        ELSE [ok |-> TRUE, attempted_move_str |-> attempted_move_str, result |-> result]

\* the fallback reason leaves out the generator's reason
ValidateProposal_DropsOriginalReason(result, all_legal_moves, legal_moves_uci) ==
    LET attempted_move_str == IF Truthy(result.move) THEN Strip(result.move) ELSE None
        fallback_move      == uci(all_legal_moves[1])
        original_reason    == IF Truthy(result.reason) THEN result.reason
                              ELSE <<"No reason provided">>
    IN  IF ~Truthy(attempted_move_str)
        THEN IF Len(all_legal_moves) > 0
             THEN [ok |-> TRUE,
                   attempted_move_str |-> fallback_move,
                   result |-> [result EXCEPT !.move = fallback_move,
                                             !.reason = <<"Fallback: No move was generated">>]]
             ELSE [ok |-> FALSE, attempted_move_str |-> attempted_move_str, result |-> result]
        ELSE IF ~InList(attempted_move_str, legal_moves_uci)
        THEN IF Len(all_legal_moves) > 0
             THEN [ok |-> TRUE,
                   attempted_move_str |-> fallback_move,
                   result |-> [result EXCEPT
                      !.move = fallback_move,
                      !.reason = <<"Invalid move '">> \o attempted_move_str
                                 \o <<"' rejected - using fallback '">> \o fallback_move
                                 \o <<"'.">>]]
             ELSE [ok |-> FALSE, attempted_move_str |-> attempted_move_str, result |-> result]
        ELSE [ok |-> TRUE, attempted_move_str |-> attempted_move_str, result |-> result]

\* the proposed move is compared without being trimmed
ValidateProposal_NoStrip(result, all_legal_moves, legal_moves_uci) ==
    LET attempted_move_str == IF Truthy(result.move) THEN result.move ELSE None
        fallback_move      == uci(all_legal_moves[1])
        original_reason    == IF Truthy(result.reason) THEN result.reason
                              ELSE <<"No reason provided">>
    IN  IF ~Truthy(attempted_move_str)
        THEN IF Len(all_legal_moves) > 0
             THEN [ok |-> TRUE,
                   attempted_move_str |-> fallback_move,
                   result |-> [result EXCEPT !.move = fallback_move,
                                             !.reason = <<"Fallback: No move was generated">>]]
             ELSE [ok |-> FALSE, attempted_move_str |-> attempted_move_str, result |-> result]
        ELSE IF ~InList(attempted_move_str, legal_moves_uci)
        THEN IF Len(all_legal_moves) > 0
             THEN [ok |-> TRUE,
                   attempted_move_str |-> fallback_move,
                   result |-> [result EXCEPT
                      !.move = fallback_move,
                      !.reason = <<"Invalid move '">> \o attempted_move_str
                                 \o <<"' rejected - using fallback '">> \o fallback_move
                                 \o <<"'. Original reason: ">> \o original_reason]]
             ELSE [ok |-> FALSE, attempted_move_str |-> attempted_move_str, result |-> result]
        ELSE [ok |-> TRUE, attempted_move_str |-> attempted_move_str, result |-> result]

\* the fallback is the last legal move, not the first
ValidateProposal_LastLegalMove(result, all_legal_moves, legal_moves_uci) ==
    LET attempted_move_str == IF Truthy(result.move) THEN Strip(result.move) ELSE None
        fallback_move      == uci(all_legal_moves[Len(all_legal_moves)])
        original_reason    == IF Truthy(result.reason) THEN result.reason
                              ELSE <<"No reason provided">>
    IN  IF ~Truthy(attempted_move_str)
        THEN IF Len(all_legal_moves) > 0
             THEN [ok |-> TRUE,
                   attempted_move_str |-> fallback_move,
                   result |-> [result EXCEPT !.move = fallback_move,
                                             !.reason = <<"Fallback: No move was generated">>]]
             ELSE [ok |-> FALSE, attempted_move_str |-> attempted_move_str, result |-> result]
        ELSE IF ~InList(attempted_move_str, legal_moves_uci)
        THEN IF Len(all_legal_moves) > 0
             THEN [ok |-> TRUE,
                   attempted_move_str |-> fallback_move,
                   result |-> [result EXCEPT
                      !.move = fallback_move,
                      !.reason = <<"Invalid move '">> \o attempted_move_str
                                 \o <<"' rejected - using fallback '">> \o fallback_move
                                 \o <<"'. Original reason: ">> \o original_reason]]
             ELSE [ok |-> FALSE, attempted_move_str |-> attempted_move_str, result |-> result]
        ELSE [ok |-> TRUE, attempted_move_str |-> attempted_move_str, result |-> result]

\* an illegal proposal is replaced and the reason is left as it was
ValidateProposal_SilentFallback(result, all_legal_moves, legal_moves_uci) ==
    LET attempted_move_str == IF Truthy(result.move) THEN Strip(result.move) ELSE None
        fallback_move      == uci(all_legal_moves[1])
        original_reason    == IF Truthy(result.reason) THEN result.reason
                              ELSE <<"No reason provided">>
    IN  IF ~Truthy(attempted_move_str)
        THEN IF Len(all_legal_moves) > 0
             THEN [ok |-> TRUE,
                   attempted_move_str |-> fallback_move,
                   result |-> [result EXCEPT !.move = fallback_move,
                                             !.reason = <<"Fallback: No move was generated">>]]
             ELSE [ok |-> FALSE, attempted_move_str |-> attempted_move_str, result |-> result]
        ELSE IF ~InList(attempted_move_str, legal_moves_uci)
        THEN IF Len(all_legal_moves) > 0
             THEN [ok |-> TRUE,
                   attempted_move_str |-> fallback_move,
                   result |-> [result EXCEPT !.move = fallback_move]]
             ELSE [ok |-> FALSE, attempted_move_str |-> attempted_move_str, result |-> result]
        ELSE [ok |-> TRUE, attempted_move_str |-> attempted_move_str, result |-> result]

\* the final validation only repeats the ownership check
FinalValidation_TrustsEarlierChecks(b, expected_color, move_to_apply) ==
    [ok |-> b.turn = expected_color,
     move_to_apply |-> move_to_apply,
     returned |-> IF b.turn = expected_color THEN "" ELSE "ERROR: Board turn changed!",
     current_legal_moves |-> UciList(b.legal_moves)]

\* lines 278, 330, 369: `board.turn != expected_color`
TurnChanged(b, expected_color) == b.turn # expected_color

\* lines 286-321: the presence check and the legality membership check.
\* ok is FALSE where the code returns False.
ValidateProposal(result, all_legal_moves, legal_moves_uci) ==
    LET attempted_move_str == IF Truthy(result.move) THEN Strip(result.move) ELSE None
        fallback_move      == uci(all_legal_moves[1])
        original_reason    == IF Truthy(result.reason) THEN result.reason
                              ELSE <<"No reason provided">>
    IN  IF ~Truthy(attempted_move_str)
        THEN IF Len(all_legal_moves) > 0
             THEN [ok |-> TRUE,
                   attempted_move_str |-> fallback_move,
                   result |-> [result EXCEPT !.move = fallback_move,
                                             !.reason = <<"Fallback: No move was generated">>]]
             ELSE [ok |-> FALSE, attempted_move_str |-> attempted_move_str, result |-> result]
        ELSE IF ~InList(attempted_move_str, legal_moves_uci)
        THEN IF Len(all_legal_moves) > 0
             THEN [ok |-> TRUE,
                   attempted_move_str |-> fallback_move,
                   result |-> [result EXCEPT
                      !.move = fallback_move,
                      !.reason = <<"Invalid move '">> \o attempted_move_str
                                 \o <<"' rejected - using fallback '">> \o fallback_move
                                 \o <<"'. Original reason: ">> \o original_reason]]
             ELSE [ok |-> FALSE, attempted_move_str |-> attempted_move_str, result |-> result]
        ELSE [ok |-> TRUE, attempted_move_str |-> attempted_move_str, result |-> result]

\* lines 328-384: the final validation of move_to_apply against the board.
\* ok is FALSE where the code returns False; returned names the statement.
FinalValidation(b, expected_color, move_to_apply) ==
    LET current_legal_moves == UciList(b.legal_moves)
        first == current_legal_moves[1]
        none  == Len(current_legal_moves) = 0
        stop(at, m) == [ok |-> FALSE, move_to_apply |-> m, returned |-> at,
                        current_legal_moves |-> current_legal_moves]
        \* line 337: a move to apply at all
        m1 == IF ~Truthy(move_to_apply) /\ ~none THEN first ELSE move_to_apply
        \* line 346: membership in the refreshed list
        m2 == IF ~InList(m1, current_legal_moves) /\ ~none THEN first ELSE m1
        \* lines 357-379: the move object
        m3 == IF UciOk(m2)
              THEN IF ~InList(from_uci(m2), b.legal_moves) /\ ~none THEN first ELSE m2
              ELSE IF ~none THEN first ELSE m2
    IN  IF TurnChanged(b, expected_color) THEN stop("ERROR: Board turn changed!", move_to_apply)
        ELSE IF ~Truthy(move_to_apply) /\ none THEN stop("ERROR: No move to apply!", move_to_apply)
        ELSE IF ~InList(m1, current_legal_moves) /\ none
             THEN stop("ERROR: No legal moves available!", m1)
        ELSE IF UciOk(m2) /\ ~InList(from_uci(m2), b.legal_moves) /\ none
             THEN stop("ERROR: Move is not a legal move object!", m2)
        ELSE IF UciOk(m2) /\ TurnChanged(b, expected_color) THEN stop("ERROR: Turn mismatch!", m3)
        ELSE IF ~UciOk(m2) /\ none THEN stop("ERROR: Invalid move format", m2)
        ELSE IF ~InList(m3, current_legal_moves) THEN stop("FATAL ERROR", m3)
        ELSE [ok |-> TRUE, move_to_apply |-> m3, returned |-> "",
              current_legal_moves |-> current_legal_moves]

\* faulty variant: an unmatched plan type falls back to the first category
RECURSIVE MatchPlanType_DefaultsToFirst(_, _)
MatchPlanType_DefaultsToFirst(text, types) ==
    IF types = << >> THEN "Control Center"
    ELSE IF Lower(Head(types)) = Lower(text) THEN Head(types)
    ELSE MatchPlanType_DefaultsToFirst(text, Tail(types))

\* lines 392-401: the PlanType whose value matches, else the default
RECURSIVE MatchPlanType(_, _)
MatchPlanType(text, types) ==
    IF types = << >> THEN "Positional Improvement"
    ELSE IF Lower(Head(types)) = Lower(text) THEN Head(types)
    ELSE MatchPlanType(text, Tail(types))

\* lines 403-411: the id of the first active plan of the parent's type, or None
RECURSIVE FindParentPlan(_, _)
FindParentPlan(active_plans, parent_plan) ==
    IF active_plans = << >> THEN None
    ELSE IF Lower(Head(active_plans).plan_type) = Lower(parent_plan)
         THEN Head(active_plans).plan_id
         ELSE FindParentPlan(Tail(active_plans), parent_plan)

\* lines 419-423: the first active child of that type, or None
RECURSIVE FindSubPlan(_, _, _)
FindSubPlan(dag, children_ids, plan_type) ==
    IF children_ids = << >> THEN None
    ELSE LET child_id == Head(children_ids)
         IN  IF /\ child_id \in DOMAIN dag.nodes
                /\ dag.nodes[child_id].plan_type = plan_type
                /\ dag.nodes[child_id].status = "active"
             THEN child_id
             ELSE FindSubPlan(dag, Tail(children_ids), plan_type)

\* lines 386-444: the DAG after the plan of the move is found or created and
\* the move is associated with it, and the plan path of the move
ResolvePlan(dag, result, move_to_apply, turn_number) ==
    IF result.plan_type # ""
    THEN LET plan_type      == MatchPlanType(result.plan_type, PlanType)
             parent_plan_id == IF result.parent_plan # ""
                               THEN FindParentPlan(get_active_plans(dag), result.parent_plan)
                               ELSE None
             found          == IF Truthy(parent_plan_id) /\ parent_plan_id \in DOMAIN dag.nodes
                               THEN FindSubPlan(dag, dag.nodes[parent_plan_id].children_ids,
                                                plan_type)
                               ELSE None
             dag1           == IF Truthy(found) THEN dag
                               ELSE create_plan(dag, plan_type, result.plan_description,
                                                parent_plan_id, turn_number)
             plan_id        == IF Truthy(found) THEN found ELSE PlanId(dag.next_id)
             dag2           == add_move_to_plan(dag1, move_to_apply, plan_id)
         IN  [dag |-> dag2, plan_node_path |-> get_plan_path_for_move(dag2, move_to_apply)]
    ELSE [dag |-> dag, plan_node_path |-> None]

(***************************************************************************)
(* main.py: the game loop, one controller turn in steps.                   *)
(*   loop     at the test of the while loop                                *)
(*   invoke   LLM.evolve is inside chain.invoke                            *)
(*   final    before the final validation (line 328)                       *)
(*   plan     before the plan is resolved (line 386)                       *)
(*   apply    before Goal.achieve is called (line 450)                     *)
(*   returned LLM.evolve has returned                                      *)
(*   record   before the move is recorded and the board rendered           *)
(***************************************************************************)
LoopGoesOn ==
    /\ pc = "loop"
    /\ ~board.game_over
    /\ running

\* main.py 77-93, models.py 226-262: the agent's turn starts; evolve
\* captures the side to move and the legal moves, and invokes the generator
AgentTurnNumbered(n) ==
    /\ LoopGoesOn
    /\ board.turn = agent_color
    /\ move_number' = n
    /\ loop' = [NoLoop EXCEPT !.board_before_move = board]
    /\ ev' = [NoFrame EXCEPT !.expected_color = board.turn,
                             !.all_legal_moves = board.legal_moves]
    /\ pc' = "invoke"
    /\ UNCHANGED <<plan_dag, board, goal, recorder, running, agent_color, faults, imports, origin>>

\* main.py 78: the iteration is numbered one more than the last
AgentTurn == AgentTurnNumbered(move_number + 1)

\* the agent's turn in a game of MaxTurns loop iterations at most
AgentTurnBegins ==
    /\ move_number < MaxTurns
    /\ AgentTurn

\* models.py 273-275: chain.invoke raises
GeneratorRaises ==
    /\ pc = "invoke"
    /\ ev' = [ev EXCEPT !.returned = "Error getting move from LLM", !.ret = FALSE]
    /\ pc' = "returned"
    /\ UNCHANGED <<plan_dag, board, goal, recorder, move_number, running, loop, agent_color, faults, imports, origin>>

\* models.py 265-326: the generator returns result; the turn is checked,
\* the legal moves are fetched again and the proposal is validated
EvolveValidates(bd, frame, result) ==
    LET legal_moves_uci == UciList(bd.legal_moves)
        v               == ValidateProposal(result, frame.all_legal_moves, legal_moves_uci)
    IN  IF TurnChanged(bd, frame.expected_color)
        THEN [frame EXCEPT !.proposal = result, !.result = result,
                           !.returned = "ERROR: Board turn changed before move validation!",
                           !.ret = FALSE]
        ELSE IF ~v.ok
        THEN [frame EXCEPT !.proposal = result, !.result = result,
                           !.legal_moves_uci = legal_moves_uci,
                           !.attempted_move_str = v.attempted_move_str,
                           !.returned = "ERROR: No legal moves available!",
                           !.ret = FALSE]
        ELSE [frame EXCEPT !.proposal = result, !.result = v.result,
                           !.legal_moves_uci = legal_moves_uci,
                           !.attempted_move_str = v.attempted_move_str,
                           !.moves_before_achieve = Len(bd.move_stack),
                           !.move_to_apply = IF Truthy(v.attempted_move_str)
                                             THEN v.attempted_move_str ELSE v.result.move,
                           !.reason_to_use = IF Truthy(v.result.reason) THEN v.result.reason
                                             ELSE <<"No reason provided">>]

GeneratorReturnsFrom(outputs) ==
    /\ pc = "invoke"
    /\ \E result \in outputs : ev' = EvolveValidates(board, ev, result)
    /\ pc' = IF ev'.returned = "" THEN "final" ELSE "returned"
    /\ UNCHANGED <<plan_dag, board, goal, recorder, move_number, running, loop, agent_color, faults, imports, origin>>

\* the generator returns any Output
GeneratorReturns ==
    /\ pc = "invoke"
    /\ GeneratorReturnsFrom(Output)

\* models.py 328-384
EvolveFinalValidation ==
    /\ pc = "final"
    /\ LET f == FinalValidation(board, ev.expected_color, ev.move_to_apply)
       IN  /\ ev' = [ev EXCEPT !.move_to_apply = f.move_to_apply,
                               !.current_legal_moves = f.current_legal_moves,
                               !.returned = f.returned,
                               !.ret = FALSE]
           /\ pc' = IF f.ok THEN "plan" ELSE "returned"
    /\ UNCHANGED <<plan_dag, board, goal, recorder, move_number, running, loop, agent_color, faults, imports, origin>>

\* models.py 386-448
EvolveResolvesPlan ==
    /\ pc = "plan"
    /\ LET r == ResolvePlan(plan_dag, ev.result, ev.move_to_apply, move_number)
       IN  /\ plan_dag' = r.dag
           /\ ev' = [ev EXCEPT !.plan_node_path = r.plan_node_path]
           /\ goal' = IF Truthy(r.plan_node_path)
                      THEN [goal EXCEPT !.plan_node = r.plan_node_path] ELSE goal
    /\ pc' = "apply"
    /\ UNCHANGED <<board, recorder, move_number, running, loop, agent_color, faults, imports, origin>>

\* the move validated first is pushed straight onto the board, as main.py
\* does with the engine's move, instead of going through Goal.achieve
EvolveApplies_PushesDirectly(g, b, frame, raises, next) ==
    LET move == from_uci(frame.attempted_move_str)
        b1   == push(b, move, next)
    IN  IF raises # "no"
        THEN [goal |-> [g EXCEPT !.reason = frame.reason_to_use, !.move = move,
                                 !.move_made = FALSE, !.achieved = FALSE],
              board |-> b]
        ELSE [goal |-> [g EXCEPT !.reason = frame.reason_to_use, !.move = move,
                                 !.move_made = TRUE, !.achieved = b1.checkmate],
              board |-> b1]

\* models.py 450-472: Goal.achieve and what evolve does with its outcome
EvolveApplies(g, b, frame, raises, next) ==
    LET a  == achieve(g, b, frame.move_to_apply, frame.reason_to_use, raises, next)
        moves_after_achieve == Len(a.board.move_stack)
        g1 == IF a.goal.move_made /\ ~(moves_after_achieve > frame.moves_before_achieve)
              THEN [a.goal EXCEPT !.move_made = FALSE] ELSE a.goal
        g2 == IF Truthy(frame.result.new_goal) /\ Truthy(Strip(frame.result.new_goal))
              THEN [g1 EXCEPT !.description = frame.result.new_goal] ELSE g1
    IN  [goal |-> g2, board |-> a.board]

Applies(raises) ==
    /\ pc = "apply"
    /\ \E next \in Positions :
          LET r == EvolveApplies(goal, board, ev, raises, next)
          IN  /\ goal' = r.goal
              /\ board' = r.board
              /\ ev' = [ev EXCEPT !.returned = "return goal.is_achieved()",
                                  !.ret = r.goal.achieved]
    /\ pc' = "returned"
    /\ UNCHANGED <<plan_dag, recorder, move_number, running, loop, agent_color, imports, origin>>

\* the rules engine applies the move it is given
EvolveAppliesMove ==
    /\ Applies("no")
    /\ UNCHANGED faults

\* main.py 95-104: what the loop makes of the turn
AgentTurnOutcome(g) ==
    IF g.move_made /\ MoveTruthy(g.move)
    THEN [player_name |-> <<"Agent">>,
          move_uci    |-> uci(g.move),
          reason_str  |-> IF Truthy(g.reason) THEN g.reason ELSE <<"Agent's strategic move">>]
    ELSE [player_name |-> None,
          move_uci    |-> None,
          reason_str  |-> <<"Agent failed to generate a valid move">>]

AgentTurnEnds ==
    /\ pc = "returned"
    /\ LET o == AgentTurnOutcome(goal)
       IN  loop' = [loop EXCEPT !.player_name = o.player_name,
                                !.move_uci = o.move_uci,
                                !.reason_str = o.reason_str]
    /\ ev' = NoFrame
    /\ pc' = "record"
    /\ UNCHANGED <<plan_dag, board, goal, recorder, move_number, running, agent_color, faults, imports, origin>>

\* main.py 77-87, 106-147: Stockfish plays a legal move, which gets a plan
\* node of its own
StockfishPlaysNumbered(n) ==
    /\ LoopGoesOn
    /\ board.turn # agent_color
    /\ move_number' = n
    /\ \E i \in DOMAIN board.legal_moves, next \in Positions :
          LET move     == board.legal_moves[i]
              move_uci == uci(move)
              dag1     == create_plan(plan_dag, "Positional Improvement",
                                      "Stockfish engine optimization", None, n)
              dag2     == add_move_to_plan(dag1, move_uci, PlanId(plan_dag.next_id))
          IN  /\ board' = push(board, move, next)
              /\ plan_dag' = dag2
              /\ goal' = [goal EXCEPT !.plan_node = get_plan_path_for_move(dag2, move_uci)]
              /\ loop' = [board_before_move |-> board,
                          player_name       |-> <<"Stockfish">>,
                          move_uci          |-> move_uci,
                          reason_str        |-> <<"Stockfish analysis">>]
    /\ pc' = "record"
    /\ UNCHANGED <<recorder, running, ev, agent_color, faults, imports, origin>>

\* main.py 78: the iteration is numbered one more than the last
StockfishPlays == StockfishPlaysNumbered(move_number + 1)

\* Stockfish's turn in a game of MaxTurns loop iterations at most
StockfishTurn ==
    /\ move_number < MaxTurns
    /\ StockfishPlays

\* main.py 149-213: the move is recorded; rendering reports whether the
\* window is still open
RecordAndRender ==
    /\ pc = "record"
    /\ recorder' = IF Truthy(loop.move_uci) /\ Truthy(loop.player_name)
                   THEN Append(recorder,
                               [ move_number |-> move_number,
                                 actor       |-> IF loop.player_name = <<"Stockfish">>
                                                 THEN <<"Stockfish">> ELSE <<"GPT-5.1">>,
                                 move_uci    |-> loop.move_uci,
                                 plan_node   |-> goal.plan_node ])
                   ELSE recorder
    /\ \E open \in BOOLEAN : running' = open
    /\ pc' = "loop"
    /\ UNCHANGED <<plan_dag, board, goal, move_number, loop, ev, agent_color, faults, imports, origin>>

Next ==
    \/ AgentTurnBegins
    \/ GeneratorRaises
    \/ GeneratorReturns
    \/ EvolveFinalValidation
    \/ EvolveResolvesPlan
    \/ EvolveAppliesMove
    \/ AgentTurnEnds
    \/ StockfishTurn
    \/ RecordAndRender

Spec == Init /\ [][Next]_vars

(***************************************************************************)
(* SpecGame: the same loop played for more iterations, with a generator    *)
(* that proposes one legal and one illegal move, with a plan type of the   *)
(* enumeration, an unknown one or none, as a top-level plan or a sub-plan. *)
(***************************************************************************)
GameOutput ==
    [ move             : {E2E4, Z9Z9},
      reason           : {<<"central control">>},
      new_goal         : {<< >>},
      plan_type        : {"Control Center", "", "Fortress"},
      plan_description : {"hold the centre"},
      parent_plan      : {"", "positional improvement"} ]

GameAgentTurnBegins ==
    /\ move_number < MaxGameTurns
    /\ AgentTurn

GameGeneratorReturns ==
    /\ pc = "invoke"
    /\ GeneratorReturnsFrom(GameOutput)

GameStockfishTurn ==
    /\ move_number < MaxGameTurns
    /\ StockfishPlays

NextGame ==
    \/ GameAgentTurnBegins
    \/ GeneratorRaises
    \/ GameGeneratorReturns
    \/ EvolveFinalValidation
    \/ EvolveResolvesPlan
    \/ EvolveAppliesMove
    \/ AgentTurnEnds
    \/ GameStockfishTurn
    \/ RecordAndRender

SpecGame == Init /\ [][NextGame]_vars

(***************************************************************************)
(* SpecEnv: the faults the code defends against.                           *)
(***************************************************************************)
\* models.py 277: while the generator is invoked the board is changed from
\* outside (another agent moved) to any position with either side to move
ExternalMutation ==
    /\ pc = "invoke"
    /\ faults < MaxFaults
    /\ faults' = faults + 1
    /\ \E color \in Colors, pos \in Positions :
          board' = BoardOf(color, pos, board.move_stack)
    /\ UNCHANGED <<plan_dag, goal, recorder, move_number, running, loop, ev, pc, agent_color, imports, origin>>

\* models.py 175: board.push raises
EvolveApplyRaises ==
    /\ faults < MaxFaults
    /\ faults' = faults + 1
    /\ Applies("before")

NextEnv == Next \/ ExternalMutation \/ EvolveApplyRaises

SpecEnv == Init /\ [][NextEnv]_vars

(***************************************************************************)
(* SpecEngine: SpecEnv with a rules engine whose push may also fail after  *)
(* it has begun to change the board.                                       *)
(***************************************************************************)
\* models.py 175: board.push raises midway
EvolveApplyRaisesMidway ==
    /\ faults < MaxFaults
    /\ faults' = faults + 1
    /\ Applies("midway")

NextEngine == NextEnv \/ EvolveApplyRaisesMidway

SpecEngine == Init /\ [][NextEngine]_vars

(***************************************************************************)
(* Claims about one controller turn.  They are read where LLM.evolve has   *)
(* returned and its locals are still there (pc = "returned").              *)
(***************************************************************************)
\* the generator returned a proposal in this turn
ProposalReturned == pc = "returned" /\ ev.proposal # None

\* the board position when the turn began (main.py 85)
Before == loop.board_before_move

\* a move was pushed onto the board in this turn
Pushed == Len(board.move_stack) > Len(Before.move_stack)

\* the move applied in this turn, as UCI text
AppliedUci == uci(board.move_stack[Len(board.move_stack)])

\* the generator's proposed move string, trimmed
ProposedTrimmed == Strip(ev.proposal.move)

\* the reason text records a fallback substitution (lines 296 and 315)
FallbackMarked(reason) ==
    \/ Contains(reason, <<"Fallback: No move was generated">>)
    \/ Contains(reason, <<"' rejected - using fallback '">>)

\* the step that calls Goal.achieve pushes a move
PushStep ==
    pc = "apply" /\ Len(board'.move_stack) > Len(board.move_stack)

\* C3: every move a controller turn pushes onto the board is one of the
\* legal moves of the position it is pushed in, whatever the proposal was and
\* whatever happened to the position while the generator was invoked.
C3_PushedMoveIsLegal ==
    [][PushStep =>
         /\ Len(board'.move_stack) = Len(board.move_stack) + 1
         /\ InList(board'.move_stack[Len(board'.move_stack)], board.legal_moves)]_vars

\* C3: a move is pushed in a turn in which the legal moves changed while the
\* generator was invoked and the proposal had been legal before the change
C3_Witness ==
    /\ ProposalReturned /\ Pushed
    /\ InList(ProposedTrimmed, UciList(ev.all_legal_moves))
    /\ ~InList(ProposedTrimmed, ev.legal_moves_uci)

\* C4: when the side to move is no longer the one captured at the start of
\* LLM.evolve, the turn goes no further than the check that follows the
\* generator's return, and a push is only ever made for the side that was to
\* move when the turn began.
C4_NoMoveForTheWrongSide ==
    /\ [](pc \in {"final", "plan", "apply"} => board.turn = ev.expected_color)
    /\ [][PushStep => /\ board.turn = ev.expected_color
                      /\ board.turn = Before.turn]_vars

\* C4: a turn that ended on the ownership check, with nothing pushed
C4_Witness ==
    /\ ProposalReturned /\ ~Pushed
    /\ board.turn # ev.expected_color
    /\ ev.returned = "ERROR: Board turn changed before move validation!"

BlockedExits ==
    { "Error getting move from LLM",
      "ERROR: Board turn changed before move validation!",
      "ERROR: No legal moves available!",
      "ERROR: Board turn changed!",
      "ERROR: No move to apply!" }

\* C6: with no legal move on the board, LLM.evolve never gets to resolving a
\* plan or to Goal.achieve, and it returns False from one of its blocking
\* exits without a move pushed.
C6_NoLegalMovesBlocks ==
    /\ pc \in {"plan", "apply"} => Len(board.legal_moves) > 0
    /\ (pc = "returned" /\ ~Pushed /\ Len(board.legal_moves) = 0)
          => ev.ret = FALSE /\ ev.returned \in BlockedExits

\* C6: the legal moves vanished during the turn and the turn is blocked
C6_Witness ==
    /\ ProposalReturned /\ ~Pushed
    /\ Len(Before.legal_moves) > 0
    /\ Len(board.legal_moves) = 0
    /\ ev.returned = "ERROR: No legal moves available!"

\* C7: a proposal whose trimmed move is non-empty and not legal is replaced
\* by the first legal move in enumeration order, and the recorded reason
\* contains the rejected text, the substituted move and the generator's
\* reason.
C7_IllegalMoveFallsBack ==
    (/\ ProposalReturned
     /\ Truthy(ProposedTrimmed)
     /\ ~InList(ProposedTrimmed, UciList(Before.legal_moves)))
        => /\ Pushed
           /\ AppliedUci = uci(Before.legal_moves[1])
           /\ ev.move_to_apply = uci(Before.legal_moves[1])
           /\ Contains(goal.reason, ProposedTrimmed)
           /\ Contains(goal.reason, uci(Before.legal_moves[1]))
           /\ Contains(goal.reason, ev.proposal.reason)

\* C7: "z9z9" with a reason given was replaced by the first of two legal moves
C7_Witness ==
    /\ ProposalReturned /\ Pushed
    /\ ev.proposal.move = Z9Z9
    /\ Truthy(ev.proposal.reason)
    /\ Len(Before.legal_moves) = 2
    /\ AppliedUci = uci(Before.legal_moves[1])

\* C8 as claimed: a proposal whose trimmed move is legal is applied as it
\* is, the recorded reason is the generator's reason unchanged, and nothing
\* marks a fallback.
C8_AsClaimed ==
    (ProposalReturned /\ InList(ProposedTrimmed, UciList(Before.legal_moves)))
        => /\ Pushed
           /\ AppliedUci = ProposedTrimmed
           /\ goal.reason = ev.proposal.reason
           /\ ~FallbackMarked(goal.reason)

\* C8, amended: a proposal whose trimmed move is legal is applied as it is,
\* the recorded reason is the generator's reason unchanged when that is not
\* empty and "No reason provided" when it is, and nothing marks a fallback.
C8_LegalMoveAppliedAsIs ==
    (ProposalReturned /\ InList(ProposedTrimmed, UciList(Before.legal_moves)))
        => /\ Pushed
           /\ AppliedUci = ProposedTrimmed
           /\ goal.reason = IF Truthy(ev.proposal.reason) THEN ev.proposal.reason
                            ELSE <<"No reason provided">>
           /\ ~FallbackMarked(goal.reason)

\* C8: a legal move proposed with surrounding blanks was applied trimmed
C8_Witness ==
    /\ ProposalReturned /\ Pushed
    /\ ev.proposal.move = <<" ">> \o G1F3 \o <<" ">>
    /\ AppliedUci = G1F3
    /\ Truthy(ev.proposal.reason)

\* C9: an empty or absent proposed move is replaced by the first legal move
\* in the rules engine's enumeration order, and the recorded reason says
\* that no move was generated.
C9_MissingMoveFallsBack ==
    (/\ ProposalReturned
     /\ ~Truthy(ProposedTrimmed)
     /\ Len(Before.legal_moves) > 0)
        => /\ Pushed
           /\ AppliedUci = uci(Before.legal_moves[1])
           /\ Contains(goal.reason, <<"Fallback: No move was generated">>)

\* C9: an empty proposal was replaced by the first of two legal moves
C9_Witness ==
    /\ ProposalReturned /\ Pushed
    /\ ev.proposal.move = << >>
    /\ Len(Before.legal_moves) = 2
    /\ AppliedUci = uci(Before.legal_moves[1])

\* C10: in a turn where the move applied is not the generator's trimmed
\* proposal, the recorded reason says that a fallback was substituted; this
\* includes a substitution made by the final validation.
C10_FallbackIsRecorded ==
    (ProposalReturned /\ Pushed /\ AppliedUci # ProposedTrimmed)
        => FallbackMarked(goal.reason)

\* C10: the final validation replaced the move once more and it was applied
C10_Witness ==
    /\ ProposalReturned /\ Pushed
    /\ ev.attempted_move_str # ev.move_to_apply
    /\ AppliedUci = ev.move_to_apply
    /\ AppliedUci # ProposedTrimmed

(***************************************************************************)
(* Claims about consecutive turns of a game.                               *)
(***************************************************************************)
\* LLM.evolve has returned in a loop iteration before which no move was ever
\* applied: every earlier iteration was a controller turn for the side that
\* is to move now
SameSideAgain ==
    /\ pc = "returned"
    /\ move_number >= 2
    /\ Len(Before.move_stack) = 0

\* the exits of LLM.evolve that report the wrong side to move
OwnershipExits ==
    { "ERROR: Board turn changed before move validation!",
      "ERROR: Board turn changed!",
      "ERROR: Turn mismatch!" }

\* C19: a controller turn that starts with the same side to move as the
\* controller turn before it ends on a turn-ownership exit and applies no
\* move.
C19_SameSideTwiceIsRefused ==
    SameSideAgain => ev.returned \in OwnershipExits /\ ~Pushed

\* no move was applied in the controller turn that has just run
NoMoveThisTurn ==
    /\ pc \in {"returned", "record"}
    /\ Before # None
    /\ Len(board.move_stack) = Len(Before.move_stack)

\* C20: after a controller turn that applied no move the Goal's move-made
\* flag is false, and the loop takes the turn as one without a move: it has
\* no player and no move to record.
C20_NoMoveMeansNoMoveMade ==
    NoMoveThisTurn =>
        /\ ~goal.move_made
        /\ pc = "record" => (loop.player_name = None /\ loop.move_uci = None)

(***************************************************************************)
(* Claims about plan resolution and the Goal.                              *)
(***************************************************************************)
\* two distinct active nodes of the same plan type under the same parent
\* (no parent being the same parent)
DuplicateActive(dag, p, q) ==
    /\ p # q
    /\ dag.nodes[p].status = "active" /\ dag.nodes[q].status = "active"
    /\ dag.nodes[p].plan_type = dag.nodes[q].plan_type
    /\ dag.nodes[p].parent_id = dag.nodes[q].parent_id

\* C21: after any sequence of turns no two active plans share both plan type
\* and parent: plan resolution reuses the active plan of that type and parent
\* and creates a node only when there is none.
C21_NoDuplicateActivePlans ==
    \A p \in NodeIds : \A q \in NodeIds : ~DuplicateActive(plan_dag, p, q)

\* the plan-type text of a proposal is given and is the value of no PlanType
UnknownPlanType(text) ==
    text # "" /\ \A i \in DOMAIN PlanType : Lower(PlanType[i]) # Lower(text)

\* the node the move applied in this turn is indexed under
PlanOfMove == plan_dag.nodes[plan_dag.move_to_plan[ev.move_to_apply]]

\* C22: a proposal whose plan type matches no category does not abort the
\* turn: LLM.evolve runs to its end, the move is applied, and the move is
\* indexed under and listed in an active plan of the fallback category,
\* Positional Improvement.
C22_UnknownPlanTypeFallsBack ==
    (ProposalReturned /\ UnknownPlanType(ev.proposal.plan_type))
        => /\ ev.returned = "return goal.is_achieved()"
           /\ Pushed /\ goal.move_made
           /\ AppliedUci = ev.move_to_apply
           /\ ev.move_to_apply \in DOMAIN plan_dag.move_to_plan
           /\ plan_dag.move_to_plan[ev.move_to_apply] \in NodeIds
           /\ PlanOfMove.plan_type = "Positional Improvement"
           /\ PlanOfMove.status = "active"
           /\ InList(ev.move_to_apply, PlanOfMove.moves)
           /\ Truthy(ev.plan_node_path)

\* C22: "Fortress" was proposed with an illegal move; the fallback move was
\* applied and sits in a Positional Improvement plan created in this turn
C22_Witness ==
    /\ ProposalReturned /\ Pushed
    /\ ev.proposal.plan_type = "Fortress"
    /\ ev.proposal.move = Z9Z9
    /\ PlanOfMove.plan_type = "Positional Improvement"
    /\ PlanOfMove.created_at_move = move_number
    /\ PlanOfMove.moves = <<AppliedUci>>

\* C23: a plan created in this turn from a plan-type text that matches no
\* category is not stored under one of the fixed categories.
C23_UnknownPlanTypeIsTagged ==
    (/\ ProposalReturned
     /\ UnknownPlanType(ev.proposal.plan_type)
     /\ Truthy(ev.plan_node_path)
     /\ PlanOfMove.created_at_move = move_number)
        => ~InList(PlanOfMove.plan_type, PlanType)

\* "Control Center -> e4 execution"
ControlCenterE4 == <<"Control Center", " -> ", "e", "4", " execution">>

\* plan resolution starts on an empty DAG for the proposal "e2e4" of plan type
\* "Control Center" without a parent, "e2e4" being legal
FirstProposalE2E4 ==
    /\ pc = "plan"
    /\ plan_dag = NewPlanDAG
    /\ ev.proposal.move = E2E4 /\ ev.move_to_apply = E2E4
    /\ ev.proposal.plan_type = "Control Center"
    /\ ev.proposal.parent_plan = ""

\* C24: from an empty DAG, resolving the plan of the proposal "e2e4" with
\* plan type "Control Center" and no parent creates exactly one node, a root
\* of type Control Center, with "e2e4" in its move list and indexed under
\* it, and the plan path of "e2e4" is "Control Center -> e4 execution".
C24_FirstProposalCreatesRootPlan ==
    [][FirstProposalE2E4 =>
         /\ plan_dag'.keys = <<PlanId(1)>>
         /\ DOMAIN plan_dag'.nodes = {PlanId(1)}
         /\ plan_dag'.root_nodes = <<PlanId(1)>>
         /\ plan_dag'.nodes[PlanId(1)].plan_type = "Control Center"
         /\ plan_dag'.nodes[PlanId(1)].parent_id = None
         /\ plan_dag'.nodes[PlanId(1)].children_ids = << >>
         /\ plan_dag'.nodes[PlanId(1)].status = "active"
         /\ plan_dag'.nodes[PlanId(1)].moves = <<E2E4>>
         /\ DOMAIN plan_dag'.move_to_plan = {E2E4}
         /\ plan_dag'.move_to_plan[E2E4] = PlanId(1)
         /\ get_plan_path_for_move(plan_dag', E2E4) = ControlCenterE4
         /\ goal'.plan_node = ControlCenterE4]_vars

\* C24: the turn of that proposal is over: "e2e4" was applied as the first
\* move of the game and the DAG holds the one root plan
C24_Witness ==
    /\ ProposalReturned /\ Pushed
    /\ Len(board.move_stack) = 1 /\ AppliedUci = E2E4
    /\ ev.proposal.move = E2E4
    /\ ev.proposal.plan_type = "Control Center" /\ ev.proposal.parent_plan = ""
    /\ plan_dag.keys = <<PlanId(1)>>
    /\ goal.plan_node = ControlCenterE4

\* the description the Goal is created with (main.py 41)
GoalText == <<"Win the game of chess by making the best moves against Stockfish.">>

\* C25: the Goal's description changes only in a step that applies a move
\* for a proposal with a non-empty new goal, and then it is that new goal; the
\* original description never changes.
C25_DescriptionChangesOnlyOnSuccess ==
    /\ [](goal.original_description = GoalText)
    /\ [][goal'.description # goal.description =>
             /\ Len(board'.move_stack) > Len(board.move_stack)
             /\ Truthy(ev.proposal.new_goal)
             /\ goal'.description = ev.proposal.new_goal]_vars

\* C26: the achieved flag is true only if the last move on the board is the
\* controller's, made in its most recent turn, and left the position in
\* checkmate; after a turn that applied no move it is false.
C26_AchievedOnlyOnCheckmate ==
    /\ goal.achieved =>
          /\ board.checkmate
          /\ Len(board.move_stack) > 0
          /\ goal.move_made
          /\ goal.move = board.move_stack[Len(board.move_stack)]
          /\ board.turn = Opponent(agent_color)
          /\ Len(board.move_stack) = Len(Before.move_stack) + 1
    /\ (pc = "returned" /\ ~Pushed) => ~goal.achieved

\* C26: the controller mated with the move of its second turn
C26_Witness ==
    /\ pc = "returned" /\ Pushed
    /\ goal.achieved /\ board.checkmate
    /\ move_number = 3

(***************************************************************************)
(* Further claims about the PlanDAG.                                       *)
(***************************************************************************)
\* C27: GetActivePlans returns every active node once and no other node, in
\* the order the nodes were created: each node of the list was created in a
\* later loop iteration than the node before it.
C27_ActivePlansInCreationOrder ==
    LET active == get_active_plans(plan_dag)
    IN  /\ \A p \in NodeIds :
              plan_dag.nodes[p].status = "active"
                  <=> \E i \in DOMAIN active : active[i] = plan_dag.nodes[p]
        /\ \A i \in DOMAIN active : active[i].status = "active"
        /\ \A i \in DOMAIN active : \A j \in DOMAIN active :
              i < j => active[i].created_at_move < active[j].created_at_move

\* the DAG after differs from dag in nothing but the status of node plan_id
OnlyStatusOf(dag, after, plan_id) ==
    /\ after.keys = dag.keys
    /\ after.root_nodes = dag.root_nodes
    /\ after.move_to_plan = dag.move_to_plan
    /\ after.next_id = dag.next_id
    /\ DOMAIN after.nodes = DOMAIN dag.nodes
    /\ \A q \in DOMAIN dag.nodes :
          IF q = plan_id
          THEN [after.nodes[q] EXCEPT !.status = dag.nodes[q].status] = dag.nodes[q]
          ELSE after.nodes[q] = dag.nodes[q]

\* C28: CompletePlan(p) and AbandonPlan(p) set the status of node p and
\* change nothing else: not the status of any other node, no move list, no
\* children list, not the root list, not the index; for a p that names no
\* node the DAG is left as it is.
C28_StatusChangeDoesNotCascade ==
    \A p \in DagIds :
        IF p \in NodeIds
        THEN /\ OnlyStatusOf(plan_dag, complete_plan(plan_dag, p), p)
             /\ complete_plan(plan_dag, p).nodes[p].status = "completed"
             /\ OnlyStatusOf(plan_dag, abandon_plan(plan_dag, p), p)
             /\ abandon_plan(plan_dag, p).nodes[p].status = "abandoned"
        ELSE /\ complete_plan(plan_dag, p) = plan_dag
             /\ abandon_plan(plan_dag, p) = plan_dag

\* C28: a plan was completed whose child, holding a move, is still active
C28_Witness ==
    \E p \in NodeIds : \E c \in NodeIds \ {p} :
        /\ InList(c, plan_dag.nodes[p].children_ids)
        /\ plan_dag.nodes[c].parent_id = p
        /\ plan_dag.nodes[p].status = "completed"
        /\ plan_dag.nodes[c].status = "active"
        /\ plan_dag.nodes[c].moves # << >>
        /\ abandon_plan(plan_dag, p).nodes[c].status = "active"

(***************************************************************************)
(* Claims about what is recorded with a move.                              *)
(***************************************************************************)
\* the entry RecordAndRender adds to the move history
Recorded == recorder'[Len(recorder')]

\* C29: after a controller turn that applied a move the Goal's plan path is
\* the path resolved for that move in that turn, or absent when none was
\* resolved; and the plan path recorded with a move is the plan path of the
\* recorded move, or absent when the move is associated with no plan.
C29_RecordedPathIsThatOfTheMove ==
    /\ []((pc = "returned" /\ Pushed) => goal.plan_node = ev.plan_node_path)
    /\ [][Len(recorder') > Len(recorder) =>
             Recorded.plan_node = get_plan_path_for_move(plan_dag, Recorded.move_uci)]_vars

(***************************************************************************)
(* Claims about a failing rules engine.                                    *)
(***************************************************************************)
\* the step in which Goal.achieve calls board.push and the call raises
PushRaisesStep ==
    /\ pc = "apply"
    /\ faults' = faults + 1
    /\ ~board.game_over

\* C30: when board.push raises in Goal.achieve, the turn ends with achieved
\* and move_made false, the move stack of the board is as it was before the
\* turn, and LLM.evolve returns to its caller in the ordinary way.
C30_PushFailureLeavesNoTrace ==
    [][PushRaisesStep =>
         /\ ~goal'.achieved /\ ~goal'.move_made
         /\ board'.move_stack = board.move_stack
         /\ board'.move_stack = Before.move_stack
         /\ pc' = "returned"
         /\ ev'.returned = "return goal.is_achieved()"
         /\ ev'.ret = FALSE]_vars

(***************************************************************************)
(* Claims about the PlanDAG operations taken one call at a time.           *)
(***************************************************************************)
\* the plan ids that name no node of the DAG
Unresolved == DagIds \ NodeIds

\* C31: AddMoveToPlan(m, p) with a plan id p that names no node leaves the
\* whole DAG as it was: nodes, move lists, root list, index and id counter.
C31_AddMoveToUnknownPlanIsNoOp ==
    \A m \in DagMoves : \A p \in Unresolved :
        add_move_to_plan(plan_dag, m, p) = plan_dag

\* C31: a move is indexed under an existing node and listed there, another
\* plan id names no node, and adding the move to that id has changed nothing
C31_Witness ==
    \E m \in DagMoves : \E p \in Unresolved :
        /\ m \in DOMAIN plan_dag.move_to_plan
        /\ Listed(plan_dag, m, plan_dag.move_to_plan[m])
        /\ add_move_to_plan(plan_dag, m, p).move_to_plan[m] = plan_dag.move_to_plan[m]
        /\ add_move_to_plan(plan_dag, m, p).nodes = plan_dag.nodes

(***************************************************************************)
(* SpecPath: plan trees of up to MaxTreePlans nodes, grown by create_plan  *)
(* with every plan type and every parent id.                               *)
(***************************************************************************)
TreeParents == {None} \cup {PlanId(n) : n \in 1..MaxTreePlans}

CreatePlanInTree ==
    /\ plan_dag.next_id <= MaxTreePlans
    /\ move_number' = move_number + 1
    /\ \E plan_type \in DagPlanTypes, parent_id \in TreeParents :
          plan_dag' = create_plan(plan_dag, plan_type, "plan", parent_id, move_number + 1)
    /\ UNCHANGED <<board, goal, recorder, running, loop, ev, pc, agent_color, faults, imports, origin>>

NextPath == CreatePlanInTree

SpecPath == InitDag /\ [][NextPath]_vars

\* the parent chain of node p is that of a well-formed tree: every parent id
\* on it names a node, and it reaches a root without coming back to a node
RECURSIVE WellFormedChain(_, _, _)
WellFormedChain(dag, p, k) ==
    IF ~Truthy(dag.nodes[p].parent_id) THEN TRUE
    ELSE /\ k > 0
         /\ dag.nodes[p].parent_id \in DOMAIN dag.nodes
         /\ WellFormedChain(dag, dag.nodes[p].parent_id, k - 1)

\* the number of parent links between node p and its root
RECURSIVE Depth(_, _)
Depth(dag, p) ==
    IF ~Truthy(dag.nodes[p].parent_id) THEN 0 ELSE 1 + Depth(dag, dag.nodes[p].parent_id)

\* the node k parent links above node p
RECURSIVE AncestorAt(_, _, _)
AncestorAt(dag, p, k) ==
    IF k = 0 THEN p ELSE AncestorAt(dag, dag.nodes[p].parent_id, k - 1)

\* C32: for a node at depth d of a well-formed tree GetPlanPath returns d + 1
\* labels separated by arrows: the label of the root first, then that of
\* each node down the parent chain, the node's own label last.
C32_PathIsRootFirst ==
    \A p \in NodeIds :
        WellFormedChain(plan_dag, p, Cardinality(NodeIds)) =>
            LET path == get_path(plan_dag, plan_dag.nodes[p])
                d    == Depth(plan_dag, p)
            IN  /\ Len(path) = 2 * d + 1
                /\ \A i \in 0..d :
                      path[2 * i + 1] = plan_dag.nodes[AncestorAt(plan_dag, p, d - i)].plan_type
                /\ \A i \in 1..d : path[2 * i] = " -> "

\* C32: a node two links below its root in a well-formed chain, the root
\* and the node of different plan types, and its path of three labels
C32_Witness ==
    \E p \in NodeIds :
        /\ WellFormedChain(plan_dag, p, Cardinality(NodeIds))
        /\ Depth(plan_dag, p) = 2
        /\ plan_dag.nodes[AncestorAt(plan_dag, p, 2)].plan_type # plan_dag.nodes[p].plan_type
        /\ Len(get_path(plan_dag, plan_dag.nodes[p])) = 5
        /\ get_path(plan_dag, plan_dag.nodes[p])[5] = plan_dag.nodes[p].plan_type

(***************************************************************************)
(* SpecOps: one PlanDAG from its construction on, under create_plan,       *)
(* add_move_to_plan, complete_plan and abandon_plan.                       *)
(***************************************************************************)
NextOps == CreatePlan \/ AddMoveToPlan \/ CompletePlan \/ AbandonPlan

SpecOps == InitDag /\ [][NextOps]_vars

\* node p is in both DAGs with the fields that are fixed at creation equal
SameIdentity(dag, after, p) ==
    /\ p \in DOMAIN after.nodes
    /\ after.nodes[p].plan_id = dag.nodes[p].plan_id
    /\ after.nodes[p].parent_id = dag.nodes[p].parent_id
    /\ after.nodes[p].plan_type = dag.nodes[p].plan_type
    /\ after.nodes[p].description = dag.nodes[p].description
    /\ after.nodes[p].created_at_move = dag.nodes[p].created_at_move

\* list is after what it was before, or that with one element appended
GrewByAppend(before, after) ==
    \/ after = before
    \/ Len(after) = Len(before) + 1 /\ SubSeq(after, 1, Len(before)) = before

\* C33 as worded: no call removes a node or changes its parent id, plan
\* type, description or created-turn, and an existing node changes in
\* nothing but its move list, by an append, and its status.
C33_AsClaimed ==
    [][\A p \in NodeIds :
          /\ SameIdentity(plan_dag, plan_dag', p)
          /\ GrewByAppend(plan_dag.nodes[p].moves, plan_dag'.nodes[p].moves)
          /\ plan_dag'.nodes[p].children_ids = plan_dag.nodes[p].children_ids]_vars

\* C33: no call removes a node or changes its parent id, plan type,
\* description or created-turn; an existing node changes only by a move
\* appended to its move list, by its status being set, or by the id of a
\* plan just created under it appended to its children list.
C33_NodesKeepTheirIdentity ==
    [][\A p \in NodeIds :
          /\ SameIdentity(plan_dag, plan_dag', p)
          /\ GrewByAppend(plan_dag.nodes[p].moves, plan_dag'.nodes[p].moves)
          /\ \/ plan_dag'.nodes[p].children_ids = plan_dag.nodes[p].children_ids
             \/ /\ CreateStep
                /\ plan_dag'.nodes[PlanId(plan_dag.next_id)].parent_id = p
                /\ plan_dag'.nodes[p].children_ids
                      = Append(plan_dag.nodes[p].children_ids, PlanId(plan_dag.next_id))]_vars

\* C33: the first plan has been given a move and a sub-plan and has been
\* abandoned, and is in the DAG with the turn it was created in
C33_Witness ==
    /\ PlanId(1) \in NodeIds /\ PlanId(2) \in NodeIds
    /\ plan_dag.nodes[PlanId(1)].status = "abandoned"
    /\ plan_dag.nodes[PlanId(1)].created_at_move = 1
    /\ plan_dag.nodes[PlanId(1)].moves # << >>
    /\ plan_dag.nodes[PlanId(1)].children_ids = <<PlanId(2)>>
    /\ plan_dag.nodes[PlanId(2)].parent_id = PlanId(1)

\* the lifecycle statuses of a plan
Statuses == {"active", "completed", "abandoned"}

\* C37: every node's status is active, completed or abandoned; the node a
\* CreatePlan call makes is active; and a node that is completed or
\* abandoned is not active after any further call.
C37_StatusNeverReturnsToActive ==
    /\ [](\A p \in NodeIds : plan_dag.nodes[p].status \in Statuses)
    /\ [][/\ CreateStep => plan_dag'.nodes[PlanId(plan_dag.next_id)].status = "active"
          /\ \A p \in NodeIds :
                plan_dag.nodes[p].status # "active" =>
                    /\ p \in DOMAIN plan_dag'.nodes
                    /\ plan_dag'.nodes[p].status # "active"]_vars

\* C37: the first plan has been abandoned, and a plan created after it,
\* which has been given a move, is active
C37_Witness ==
    /\ PlanId(1) \in NodeIds /\ PlanId(2) \in NodeIds
    /\ plan_dag.nodes[PlanId(1)].status = "abandoned"
    /\ plan_dag.nodes[PlanId(2)].status = "active"
    /\ plan_dag.nodes[PlanId(2)].created_at_move = 2
    /\ plan_dag.nodes[PlanId(2)].moves # << >>

(***************************************************************************)
(* Claims about the order of plan association and application in a turn.   *)
(***************************************************************************)
\* the work of one loop iteration on board and DAG is done
TurnOver == pc \in {"returned", "record"}

\* the iteration has pushed no move
NothingPushed == board.move_stack = loop.board_before_move.move_stack

\* the move identifiers of the moves on the board's stack
AppliedMoves == Range(UciList(board.move_stack))

\* C34: when the work of a turn is done, every move identifier in the
\* DAG's index and in a node's move list is that of a move applied to the
\* board, and a turn that committed no move has left no plan node of its
\* own in the DAG.
C34_DagHoldsOnlyAppliedMoves ==
    TurnOver =>
        /\ \A m \in DOMAIN plan_dag.move_to_plan : m \in AppliedMoves
        /\ \A p \in NodeIds : Range(plan_dag.nodes[p].moves) \subseteq AppliedMoves
        /\ NothingPushed =>
              \A p \in NodeIds : plan_dag.nodes[p].created_at_move # move_number

(***************************************************************************)
(* SpecLive: the game loop of main.py iterating for as long as its         *)
(* condition holds, in games every one of which is over after MaxMoves     *)
(* pushed moves.  The loop uses move_number to print it and to stamp the   *)
(* plans it creates; it is counted up to MaxLiveTurns and kept there, so   *)
(* that an iteration which changes nothing else comes back to the same     *)
(* state.  The program keeps taking steps while one is possible (weak      *)
(* fairness of the next-state action); the window may stay open for ever.  *)
(***************************************************************************)
NextNumber == IF move_number < MaxLiveTurns THEN move_number + 1 ELSE move_number

\* every sequence of applied moves reaches game over
GameEndsInTime == Len(board'.move_stack) >= MaxMoves => board'.game_over

LiveAgentTurn ==
    /\ pc = "loop"
    /\ AgentTurnNumbered(NextNumber)

LiveApplies ==
    /\ EvolveAppliesMove
    /\ GameEndsInTime

LiveStockfishTurn ==
    /\ StockfishPlaysNumbered(NextNumber)
    /\ GameEndsInTime

NextLive ==
    \/ LiveAgentTurn
    \/ GeneratorRaises
    \/ GameGeneratorReturns
    \/ EvolveFinalValidation
    \/ EvolveResolvesPlan
    \/ LiveApplies
    \/ AgentTurnEnds
    \/ LiveStockfishTurn
    \/ RecordAndRender

SpecLive == Init /\ [][NextLive]_vars /\ WF_vars(NextLive)

\* main.py 77: the condition of the while loop is false
LoopEnded == pc = "loop" /\ (board.game_over \/ ~running)

\* C36: the game loop terminates when every sequence of applied moves
\* reaches game over: a turn in which the agent applies no move is not
\* repeated for ever.
C36_LoopTerminates == <>LoopEnded

(***************************************************************************)
(* SpecShare: a PlanDAG is built, exported with to_dict and loaded with    *)
(* from_dict into a new PlanDAG (plan_dag), and both are used afterwards.  *)
(* to_dict puts the lists children_ids and moves of every node, the list   *)
(* root_nodes and the dictionary move_to_plan into the export as they are  *)
(* (plan_dag.py 149-150, 157-158), and from_dict stores what it finds      *)
(* there (163-164, 172-173): after the import they are the same objects in *)
(* both DAGs, and a change made through one is seen through the other.     *)
(* The nodes dictionary and the PlanNode objects are new in the import.    *)
(***************************************************************************)
Sides ==
    IF ~origin.live THEN {"plan_dag"}
    ELSE IF origin.calls < MaxSharedCalls THEN {"plan_dag", "origin"}
    ELSE {}

\* the moves the plans are given
ShareMoves == {E2E4}

DagOf(side) == IF side = "plan_dag" THEN plan_dag ELSE origin.dag

\* dag as it is found after a call has changed the other DAG to changed:
\* the objects the two share have the contents the call gave them
SeenFrom(dag, changed, shared) ==
    [dag EXCEPT !.root_nodes   = changed.root_nodes,
                !.move_to_plan = changed.move_to_plan,
                !.nodes = [p \in DOMAIN dag.nodes |->
                             IF p \in shared
                             THEN [dag.nodes[p] EXCEPT
                                     !.children_ids = changed.nodes[p].children_ids,
                                     !.moves        = changed.nodes[p].moves]
                             ELSE dag.nodes[p]]]

\* a call on the DAG of one side has made it after; the nodes in fresh are
\* new objects with lists of their own
Call(side, after, fresh) ==
    LET shared == origin.shared \ fresh
    IN  IF ~origin.live
        THEN plan_dag' = after /\ origin' = origin
        ELSE IF side = "plan_dag"
        THEN /\ plan_dag' = after
             /\ origin' = [origin EXCEPT !.dag = SeenFrom(@, after, shared),
                                         !.shared = shared,
                                         !.calls = @ + 1]
        ELSE /\ origin' = [origin EXCEPT !.dag = after, !.shared = shared,
                                         !.calls = @ + 1]
             /\ plan_dag' = SeenFrom(plan_dag, after, shared)

ShareCreatePlan ==
    /\ \E side \in Sides :
          /\ DagOf(side).next_id <= MaxPlans
          /\ \E parent_id \in DagParents :
                Call(side,
                     create_plan(DagOf(side), "Control Center", "plan", parent_id,
                                 move_number + 1),
                     {PlanId(DagOf(side).next_id)})
    /\ move_number' = move_number + 1
    /\ UNCHANGED <<board, goal, recorder, running, loop, ev, pc, agent_color, faults, imports>>

ShareAddMoveToPlan ==
    /\ \E side \in Sides, move_uci \in ShareMoves, plan_id \in DagIds :
          Call(side, add_move_to_plan(DagOf(side), move_uci, plan_id), {})
    /\ UNCHANGED <<ctl, imports>>

ShareCompletePlan ==
    /\ \E side \in Sides, plan_id \in DagIds :
          Call(side, complete_plan(DagOf(side), plan_id), {})
    /\ UNCHANGED <<ctl, imports>>

ShareAbandonPlan ==
    /\ \E side \in Sides, plan_id \in DagIds :
          Call(side, abandon_plan(DagOf(side), plan_id), {})
    /\ UNCHANGED <<ctl, imports>>

\* b = PlanDAG(); b.from_dict(a.to_dict()), a staying in use
ShareImport ==
    /\ ~origin.live
    /\ origin' = [live |-> TRUE, dag |-> plan_dag, shared |-> DOMAIN plan_dag.nodes,
                  calls |-> 0]
    /\ plan_dag' = from_dict(NewPlanDAG, to_dict(plan_dag))
    /\ UNCHANGED <<ctl, imports>>

NextShare ==
    \/ ShareCreatePlan
    \/ ShareAddMoveToPlan
    \/ ShareCompletePlan
    \/ ShareAbandonPlan
    \/ ShareImport

SpecShare == InitDag /\ [][NextShare]_vars

\* the mutable collections of a DAG: the root list, the index and every
\* node's children list and move list
Collections(dag) ==
    [ root_nodes   |-> dag.root_nodes,
      move_to_plan |-> dag.move_to_plan,
      lists        |-> [p \in DOMAIN dag.nodes |->
                          <<dag.nodes[p].children_ids, dag.nodes[p].moves>>] ]

\* C35: after a DAG has been loaded from the export of another, no call
\* of CreatePlan, AddMoveToPlan, CompletePlan or AbandonPlan on one of the
\* two changes the root list, the index or a node's children list or move
\* list of the other: no step changes the collections of both.
C35_ImportSharesNoState ==
    [][origin.live =>
          \/ Collections(origin'.dag) = Collections(origin.dag)
          \/ Collections(plan_dag') = Collections(plan_dag)]_vars

=============================================================================
